---- MODULE Spec2Model ----
(***************************************************************************)
(* HandPlusPlus: the event-to-action pipeline.                             *)
(*   crates/input-capture    the input vocabulary (Key, MouseButton,       *)
(*                           Modifier, Trigger, Hotkey, InputEvent)        *)
(*   crates/binding-engine   BindingRegistry, StateTracker, EventProcessor *)
(*   crates/action-executor  Action and Action::execute                    *)
(*   crates/config           the bindings of register_all_bindings         *)
(* The specifications share the variables:                                 *)
(*   SpecTracker   a standalone StateTracker fed events through update     *)
(*   SpecRegistry  a BindingRegistry built by a chain of bind calls        *)
(*   Spec          a registry is configured, handed to EventProcessor::new *)
(*                 and the processor is fed events through process_event   *)
(*   SpecExec      one Action executed against a recording ActionExecutor  *)
(*   SpecRun       events processed while an Action's future is driven     *)
(*   SpecNest      a Sequence whose first element is a Sequence, executed  *)
(***************************************************************************)
EXTENDS Integers, Sequences, FiniteSets, TLC

VARIABLES
    tracker,    \* a standalone StateTracker: [held_keys, held_buttons]
    fed,        \* the events passed to tracker's update, in order
    registry,   \* BindingRegistry.bindings: a map Hotkey -> Action
    bindLog,    \* the bind calls made on the registry, in order
    phase,      \* "config" until EventProcessor::new takes the registry
    state,      \* EventProcessor.state, a StateTracker
    prev,       \* EventProcessor.state before the last process_event call
    lastEvent,  \* the argument of the last process_event call
    returned,   \* what the last process_event call returned
    action,     \* the Action whose execute() future is driven
    failAt,     \* recording executor: the executor calls (by number) that fail
    rnd,        \* the value the thread rng draws for gen_range
    fut,        \* the future returned by execute: what it has yet to do
    calls,      \* the executor calls made so far, in order
    slept,      \* the durations passed to tokio::time::sleep so far
    result      \* "Created", "Suspended", then "Ok", "Err", "Panic", "Cancelled"

vars == <<tracker, fed, registry, bindLog, phase, state, prev, lastEvent,
          returned, action, failAt, rnd, fut, calls, slept, result>>

trackerVars == <<tracker, fed>>
registryVars == <<registry, bindLog, phase>>
processorVars == <<state, prev, lastEvent, returned>>
execVars == <<action, failAt, rnd, fut, calls, slept, result>>

\* Bounds of the model.
MaxFed == 4
MaxBinds == 3
MaxConfig == 2
MaxSeqLen == 3
MaxCalls == 5
MaxRnd == 2
MaxNest == 2

\* Sequences over S of length at most n.
BSeq(S, n) == UNION {[1..m -> S] : m \in 0..n}

(***************************************************************************)
(* Input vocabulary (crates/input-capture).  The enumerations are closed   *)
(* sets; the model keeps the members the bindings and events below use.    *)
(***************************************************************************)
Keys == {"Ctrl", "Shift", "P"}
MouseButtons == {"Button4", "Right"}
Modifiers == {"Ctrl", "Shift"}

KeyPress(k) == [kind |-> "KeyPress", key |-> k]
KeyRelease(k) == [kind |-> "KeyRelease", key |-> k]
MousePress(b) == [kind |-> "MousePress", button |-> b]
MouseRelease(b) == [kind |-> "MouseRelease", button |-> b]
MouseMove(px, py) == [kind |-> "MouseMove", x |-> px, y |-> py]

InputEvents ==
    {KeyPress(k) : k \in Keys} \cup {KeyRelease(k) : k \in Keys}
    \cup {MousePress(b) : b \in MouseButtons}
    \cup {MouseRelease(b) : b \in MouseButtons}
    \cup {MouseMove(0, 0)}

\* The events fed to the EventProcessor of Spec: one mouse button is enough.
ProcessorEvents ==
    {e \in InputEvents : e.kind \in {"MousePress", "MouseRelease"}
                            => e.button = "Button4"}

NoEvent == [kind |-> "NoEvent"]

TriggerKey(k) == [kind |-> "Key", key |-> k]
TriggerMouseButton(b) == [kind |-> "MouseButton", button |-> b]

\* Hotkey::key, Hotkey::mouse, Hotkey::combo: modifiers is the Vec as given.
HotkeyCombo(mods, trig) == [modifiers |-> mods, trigger |-> trig]
HotkeyKey(k) == HotkeyCombo(<<>>, TriggerKey(k))
HotkeyMouse(b) == HotkeyCombo(<<>>, TriggerMouseButton(b))

\* #[derive(PartialEq, Eq, Hash)] on Hotkey: Vec equality is element-wise,
\* in order, and so is the equality of the records above.
HotkeyEq(h1, h2) == h1.modifiers = h2.modifiers /\ h1.trigger = h2.trigger

(***************************************************************************)
(* StateTracker (crates/binding-engine).                                   *)
(***************************************************************************)
StateTrackerNew == [held_keys |-> <<>>, held_buttons |-> <<>>]

\* Vec::contains
Contains(v, x) == \E i \in 1..Len(v) : v[i] = x

\* Vec::retain(|e| e != x)
RECURSIVE RetainNe(_, _)
RetainNe(v, x) ==
    IF v = <<>> THEN <<>>
    ELSE IF Head(v) # x THEN <<Head(v)>> \o RetainNe(Tail(v), x)
    ELSE RetainNe(Tail(v), x)

\* Faulty variants of Update: a press of a held key drops it (toggle); a press is
\* pushed without the contains check.
UpdateToggle(st, event) ==
    CASE event.kind = "KeyPress" ->
            IF ~Contains(st.held_keys, event.key)
            THEN [st EXCEPT !.held_keys = Append(@, event.key)]
            ELSE [st EXCEPT !.held_keys = RetainNe(@, event.key)]
      [] event.kind = "KeyRelease" ->
            [st EXCEPT !.held_keys = RetainNe(@, event.key)]
      [] event.kind = "MousePress" ->
            IF ~Contains(st.held_buttons, event.button)
            THEN [st EXCEPT !.held_buttons = Append(@, event.button)]
            ELSE [st EXCEPT !.held_buttons = RetainNe(@, event.button)]
      [] event.kind = "MouseRelease" ->
            [st EXCEPT !.held_buttons = RetainNe(@, event.button)]
      [] OTHER -> st

UpdateNoCheck(st, event) ==
    CASE event.kind = "KeyPress" ->
            [st EXCEPT !.held_keys = Append(@, event.key)]
      [] event.kind = "KeyRelease" ->
            [st EXCEPT !.held_keys = RetainNe(@, event.key)]
      [] event.kind = "MousePress" ->
            [st EXCEPT !.held_buttons = Append(@, event.button)]
      [] event.kind = "MouseRelease" ->
            [st EXCEPT !.held_buttons = RetainNe(@, event.button)]
      [] OTHER -> st

\* Faulty variant of Update: an event that is no press or release resets
\* the held sets.
UpdateMoveClears(st, event) ==
    CASE event.kind = "KeyPress" ->
            IF ~Contains(st.held_keys, event.key)
            THEN [st EXCEPT !.held_keys = Append(@, event.key)]
            ELSE st
      [] event.kind = "KeyRelease" ->
            [st EXCEPT !.held_keys = RetainNe(@, event.key)]
      [] event.kind = "MousePress" ->
            IF ~Contains(st.held_buttons, event.button)
            THEN [st EXCEPT !.held_buttons = Append(@, event.button)]
            ELSE st
      [] event.kind = "MouseRelease" ->
            [st EXCEPT !.held_buttons = RetainNe(@, event.button)]
      [] OTHER -> [held_keys |-> <<>>, held_buttons |-> <<>>]

\* StateTracker::update
Update(st, event) ==
    CASE event.kind = "KeyPress" ->
            IF ~Contains(st.held_keys, event.key)
            THEN [st EXCEPT !.held_keys = Append(@, event.key)]
            ELSE st
      [] event.kind = "KeyRelease" ->
            [st EXCEPT !.held_keys = RetainNe(@, event.key)]
      [] event.kind = "MousePress" ->
            IF ~Contains(st.held_buttons, event.button)
            THEN [st EXCEPT !.held_buttons = Append(@, event.button)]
            ELSE st
      [] event.kind = "MouseRelease" ->
            [st EXCEPT !.held_buttons = RetainNe(@, event.button)]
      [] OTHER -> st

\* StateTracker::is_key_held, StateTracker::is_button_held
IsKeyHeld(st, k) == Contains(st.held_keys, k)
IsButtonHeld(st, b) == Contains(st.held_buttons, b)

(***************************************************************************)
(* Action (crates/action-executor): the variants of the enum.  A Duration  *)
(* is a whole number of microseconds.                                      *)
(***************************************************************************)
PressKey(k) == [type |-> "PressKey", key |-> k]
Click(b) == [type |-> "Click", button |-> b]
HoldKey(k) == [type |-> "HoldKey", key |-> k]
ReleaseKey(k) == [type |-> "ReleaseKey", key |-> k]
Sequence(as) == [type |-> "Sequence", actions |-> as]
RepeatWhileHeld(as, iv) ==
    [type |-> "RepeatWhileHeld", actions |-> as, interval |-> iv]
Delay(d) == [type |-> "Delay", duration |-> d]
RandomDelay(mn, mx) == [type |-> "RandomDelay", min |-> mn, max |-> mx]
TypeText(txt) == [type |-> "TypeText", text |-> txt]

\* Option::None where an Option<Action> is returned.
None == [type |-> "None"]

\* Duration::from_millis
FromMillis(ms) == ms * 1000

\* config::gaming::rapid_click_binding: the action and its hotkey
RapidClickAction ==
    RepeatWhileHeld(<<Click("Right"), Delay(FromMillis(50))>>, FromMillis(50))
RapidClickHotkey == HotkeyMouse("Button4")

(***************************************************************************)
(* BindingRegistry (crates/binding-engine): a HashMap<Hotkey, Action>,     *)
(* a function whose domain is the set of bound hotkeys.                    *)
(***************************************************************************)
RegistryNew == <<>>

\* Faulty variant of Insert: an existing entry is kept (entry().or_insert).
InsertKeepFirst(reg, h, a) ==
    IF \E x \in DOMAIN reg : HotkeyEq(x, h)
    THEN reg
    ELSE [x \in DOMAIN reg \cup {h} |-> IF x = h THEN a ELSE reg[x]]

\* BindingRegistry::bind: HashMap::insert replaces the value of an equal key.
Insert(reg, h, a) ==
    IF \E x \in DOMAIN reg : HotkeyEq(x, h)
    THEN [x \in DOMAIN reg |-> IF HotkeyEq(x, h) THEN a ELSE reg[x]]
    ELSE [x \in DOMAIN reg \cup {h} |-> IF x = h THEN a ELSE reg[x]]

\* BindingRegistry::is_registered
IsRegistered(reg, h) == \E x \in DOMAIN reg : HotkeyEq(x, h)

\* BindingRegistry::get_action
GetAction(reg, h) ==
    IF IsRegistered(reg, h)
    THEN reg[CHOOSE x \in DOMAIN reg : HotkeyEq(x, h)]
    ELSE None

\* BindingRegistry::len
RegistryLen(reg) == Cardinality(DOMAIN reg)

\* The hotkeys and actions the bind calls of SpecRegistry draw from: every
\* order of the modifiers Ctrl and Shift, over a key and a button trigger.
ModifierLists ==
    {<<>>, <<"Ctrl">>, <<"Shift">>, <<"Ctrl", "Shift">>, <<"Shift", "Ctrl">>}
RegistryHotkeys ==
    {HotkeyCombo(m, t) :
        m \in ModifierLists,
        t \in {TriggerKey("P"), TriggerMouseButton("Button4")}}
BindActions == {Click("Right"), RapidClickAction}

\* The bindings a configuration of Spec draws from.
ConfigHotkeys ==
    {HotkeyKey("P"), HotkeyCombo(<<"Ctrl">>, TriggerKey("P")),
     HotkeyCombo(<<"Shift">>, TriggerKey("P")), RapidClickHotkey}
ConfigActions == {PressKey("Enter"), RapidClickAction}

\* registry.bind(hotkey, action), one link of the builder chain.
Bind(h, a, limit) ==
    /\ phase = "config"
    /\ Len(bindLog) < limit
    /\ registry' = Insert(registry, h, a)
    /\ bindLog' = Append(bindLog, [hotkey |-> h, action |-> a])
    /\ UNCHANGED <<phase, trackerVars, processorVars, execVars>>

(***************************************************************************)
(* EventProcessor (crates/binding-engine).                                 *)
(***************************************************************************)
\* EventProcessor::new(registry)
NewProcessor ==
    /\ phase = "config"
    /\ phase' = "running"
    /\ state' = StateTrackerNew
    /\ UNCHANGED <<registry, bindLog, prev, lastEvent, returned,
                   trackerVars, execVars>>

\* The trigger an event presses, None for the other events.
PressedTrigger(event) ==
    CASE event.kind = "KeyPress" -> TriggerKey(event.key)
      [] event.kind = "MousePress" -> TriggerMouseButton(event.button)
      [] OTHER -> None

\* Faulty variant of Matched: every press returns the action bound to its trigger.
MatchedNaive(reg, st, event) ==
    GetAction(reg, HotkeyCombo(<<>>, PressedTrigger(event)))

\* The value process_event returns: the matching is a stub, always None.
Matched(reg, st, event) == None

\* Faulty variant of ProcessEvent: the tracker is updated for presses only.
ProcessEventPressOnly(event) ==
    /\ phase = "running"
    /\ state' = IF event.kind \in {"KeyPress", "MousePress"}
                THEN Update(state, event) ELSE state
    /\ prev' = state
    /\ lastEvent' = event
    /\ returned' = Matched(registry, state, event)
    /\ UNCHANGED <<registryVars, trackerVars, execVars>>

\* EventProcessor::process_event(event)
ProcessEvent(event) ==
    /\ phase = "running"
    /\ state' = Update(state, event)
    /\ prev' = state
    /\ lastEvent' = event
    /\ returned' = Matched(registry, Update(state, event), event)
    /\ UNCHANGED <<registryVars, trackerVars, execVars>>

(***************************************************************************)
(* A standalone StateTracker.                                              *)
(***************************************************************************)
\* tracker.update(&event)
TrackerUpdate(event) ==
    /\ Len(fed) < MaxFed
    /\ tracker' = Update(tracker, event)
    /\ fed' = Append(fed, event)
    /\ UNCHANGED <<registryVars, state, processorVars, execVars>>

(***************************************************************************)
(* Action::execute (crates/action-executor) against a recording executor.  *)
(* An execution state is [trace, n, res]: the executor calls and sleeps    *)
(* made so far in order, the number of executor calls among them, and how  *)
(* the code run so far ended: "Ok", "Err" (a `?` returned the executor's   *)
(* error) or "Panic" (todo!() or a panicking library call).                *)
(***************************************************************************)
ExecStart == [trace |-> <<>>, n |-> 0, res |-> "Ok"]

SimulateKey(k, s) == [fn |-> "simulate_key", target |-> k, state |-> s]
SimulateMouse(b, s) == [fn |-> "simulate_mouse", target |-> b, state |-> s]
Sleep(d) == [fn |-> "sleep", duration |-> d]

\* One call of an ActionExecutor method: recorded, and failing when the
\* recording executor is told to fail the call of that number.
Call(st, c, F) ==
    [trace |-> Append(st.trace, c), n |-> st.n + 1,
     res |-> IF (st.n + 1) \in F THEN "Err" ELSE "Ok"]

\* tokio::time::sleep(d).await
Await(st, d) == [st EXCEPT !.trace = Append(@, Sleep(d))]

\* Duration::as_millis: whole milliseconds, the rest is dropped.
AsMillis(d) == d \div 1000

\* rng.gen_range(lo..=hi), drawn by r; an empty range panics.
GenRange(lo, hi, r) == lo + (r % (hi - lo + 1))

\* Faulty variant of ExecPressKey: the Release call is made whatever Press returned.
ExecPressKeyNoAbort(k, st, F) ==
    Call(Call(st, SimulateKey(k, "Press"), F), SimulateKey(k, "Release"), F)

\* Action::PressKey(key)
ExecPressKey(k, st, F) ==
    LET s1 == Call(st, SimulateKey(k, "Press"), F)
    IN IF s1.res # "Ok" THEN s1 ELSE Call(s1, SimulateKey(k, "Release"), F)

\* Action::Click(button)
ExecClick(b, st, F) ==
    LET s1 == Call(st, SimulateMouse(b, "Press"), F)
    IN IF s1.res # "Ok" THEN s1 ELSE Call(s1, SimulateMouse(b, "Release"), F)

\* Action::HoldKey(key), Action::ReleaseKey(key)
ExecHoldKey(k, st, F) == Call(st, SimulateKey(k, "Press"), F)
ExecReleaseKey(k, st, F) == Call(st, SimulateKey(k, "Release"), F)

\* Action::Delay(duration)
ExecDelay(d, st) == Await(st, d)

\* Action::RandomDelay { min, max }
ExecRandomDelay(mn, mx, st, r) ==
    IF AsMillis(mn) > AsMillis(mx)
    THEN [st EXCEPT !.res = "Panic"]
    ELSE Await(st, FromMillis(GenRange(AsMillis(mn), AsMillis(mx), r)))

\* Action::RepeatWhileHeld { .. } and Action::TypeText(_): todo!()
ExecTodo(st) == [st EXCEPT !.res = "Panic"]

RECURSIVE Exec(_, _, _, _)
RECURSIVE ExecSequence(_, _, _, _)
RECURSIVE ExecSequenceContinue(_, _, _, _)
RECURSIVE ExecSequenceSwallow(_, _, _, _)

\* Faulty variant of ExecSequence: the loop stops at the first failed
\* element, but the failure is dropped and the sequence reports success.
ExecSequenceSwallow(as, st, F, r) ==
    IF as = <<>> THEN st
    ELSE LET s1 == Exec(Head(as), st, F, r)
         IN IF s1.res # "Ok" THEN [s1 EXCEPT !.res = "Ok"]
            ELSE ExecSequenceSwallow(Tail(as), s1, F, r)

\* Faulty variant of ExecSequence: a failed element does not stop the loop; the
\* failure is still reported at the end.
ExecSequenceContinue(as, st, F, r) ==
    IF as = <<>> THEN st
    ELSE LET s1 == Exec(Head(as), st, F, r)
             s2 == ExecSequenceContinue(Tail(as), [s1 EXCEPT !.res = "Ok"], F, r)
         IN IF s1.res # "Ok" THEN [s2 EXCEPT !.res = s1.res] ELSE s2

\* Action::Sequence(actions): for action in actions { execute(..).await? }
ExecSequence(as, st, F, r) ==
    IF as = <<>> THEN st
    ELSE LET s1 == Exec(Head(as), st, F, r)
         IN IF s1.res # "Ok" THEN s1 ELSE ExecSequence(Tail(as), s1, F, r)

\* Action::execute: the match on self, then Ok(()).
Exec(a, st, F, r) ==
    CASE a.type = "PressKey" -> ExecPressKey(a.key, st, F)
      [] a.type = "Click" -> ExecClick(a.button, st, F)
      [] a.type = "HoldKey" -> ExecHoldKey(a.key, st, F)
      [] a.type = "ReleaseKey" -> ExecReleaseKey(a.key, st, F)
      [] a.type = "Sequence" -> ExecSequence(a.actions, st, F, r)
      [] a.type = "Delay" -> ExecDelay(a.duration, st)
      [] a.type = "RandomDelay" -> ExecRandomDelay(a.min, a.max, st, r)
      [] a.type = "RepeatWhileHeld" -> ExecTodo(st)
      [] a.type = "TypeText" -> ExecTodo(st)

\* The actions SpecExec executes: every variant, and the sequences of up to
\* MaxSeqLen elements, one of them a nested sequence.
LeafActions ==
    {PressKey("Enter"), Click("Right"), HoldKey("Enter"), ReleaseKey("Enter"),
     Delay(FromMillis(1)), RandomDelay(1000, 2500), RandomDelay(1500, 1500),
     RapidClickAction, TypeText("Hi")}
SequenceElements ==
    {PressKey("Enter"), Click("Right"), HoldKey("Enter"), Delay(FromMillis(1)),
     TypeText("Hi"), Sequence(<<HoldKey("Enter"), Click("Right")>>)}
ExecActions ==
    LeafActions \cup {Sequence(as) : as \in BSeq(SequenceElements, MaxSeqLen)}

\* The values the rng can draw while a is executed (0 when it draws none).
Draws(a) == IF a.type = "RandomDelay" THEN 0..MaxRnd ELSE {0}

NoFuture == [trace |-> <<>>, pos |-> 0, res |-> "Ok"]

\* The end of the next poll: just after the next sleep, or the trace's end.
NextSuspension(f) ==
    LET S == {i \in (f.pos + 1)..Len(f.trace) : f.trace[i].fn = "sleep"}
    IN IF S = {} THEN Len(f.trace) ELSE CHOOSE i \in S : \A j \in S : i <= j

\* The executor calls of a trace, and the durations of its sleeps, in order.
RECURSIVE CallsOf(_)
CallsOf(t) ==
    IF t = <<>> THEN <<>>
    ELSE IF Head(t).fn # "sleep" THEN <<Head(t)>> \o CallsOf(Tail(t))
    ELSE CallsOf(Tail(t))

RECURSIVE SleepsOf(_)
SleepsOf(t) ==
    IF t = <<>> THEN <<>>
    ELSE IF Head(t).fn = "sleep" THEN <<Head(t).duration>> \o SleepsOf(Tail(t))
    ELSE SleepsOf(Tail(t))

\* a.execute(&executor): the future is created; nothing runs until polled.
Execute(a, F, r) ==
    /\ result = "Idle"
    /\ action' = a
    /\ failAt' = F
    /\ rnd' = r
    /\ LET end == Exec(a, ExecStart, F, r)
       IN fut' = [trace |-> end.trace, pos |-> 0, res |-> end.res]
    /\ result' = "Created"
    /\ UNCHANGED <<calls, slept, trackerVars, registryVars, processorVars>>

\* The runtime polls the future: it runs to its next await of a sleep, or
\* to its end.
Poll ==
    /\ result \in {"Created", "Suspended"}
    /\ LET stop == NextSuspension(fut)
           ran == SubSeq(fut.trace, fut.pos + 1, stop)
       IN /\ calls' = calls \o CallsOf(ran)
          /\ slept' = slept \o SleepsOf(ran)
          /\ fut' = [fut EXCEPT !.pos = stop]
          /\ result' = IF stop = Len(fut.trace)
                          /\ (stop = fut.pos \/ fut.trace[stop].fn # "sleep")
                       THEN fut.res ELSE "Suspended"
    /\ UNCHANGED <<action, failAt, rnd, trackerVars, registryVars,
                   processorVars>>

(***************************************************************************)
(* The specifications.                                                     *)
(***************************************************************************)
Init ==
    /\ tracker = StateTrackerNew
    /\ fed = <<>>
    /\ registry = RegistryNew
    /\ bindLog = <<>>
    /\ phase = "config"
    /\ state = StateTrackerNew
    /\ prev = StateTrackerNew
    /\ lastEvent = NoEvent
    /\ returned = None
    /\ action = None
    /\ failAt = {}
    /\ rnd = 0
    /\ fut = NoFuture
    /\ calls = <<>>
    /\ slept = <<>>
    /\ result = "Idle"

NextTracker == \E e \in InputEvents : TrackerUpdate(e)

SpecTracker == Init /\ [][NextTracker]_vars

NextRegistry ==
    \E h \in RegistryHotkeys, a \in BindActions : Bind(h, a, MaxBinds)

SpecRegistry == Init /\ [][NextRegistry]_vars

Next ==
    \/ \E h \in ConfigHotkeys, a \in ConfigActions : Bind(h, a, MaxConfig)
    \/ NewProcessor
    \/ \E e \in ProcessorEvents : ProcessEvent(e)

Spec == Init /\ [][Next]_vars

NextExec ==
    \/ /\ result = "Idle"
       /\ \E a \in ExecActions, F \in SUBSET (1..MaxCalls) :
             \E r \in Draws(a) : Execute(a, F, r)
    \/ Poll

SpecExec == Init /\ [][NextExec]_vars

(***************************************************************************)
(* SpecRun: an EventProcessor over a fixed configuration is fed events     *)
(* while the future of one Action is driven beside it: created, polled at  *)
(* the runtime's choice, and possibly dropped before it completes.         *)
(***************************************************************************)
\* The owner drops the future before it has completed: nothing more of it
\* runs, and the action's code has no Drop guard that would call the
\* executor.
Cancel ==
    /\ result \in {"Created", "Suspended"}
    /\ result' = "Cancelled"
    /\ UNCHANGED <<action, failAt, rnd, fut, calls, slept, trackerVars,
                   registryVars, processorVars>>

\* The configuration of SpecRun: P -> PressKey(Enter), and the rapid-click
\* binding of config::gaming.
RunBinds ==
    <<[hotkey |-> HotkeyKey("P"), action |-> PressKey("Enter")],
      [hotkey |-> RapidClickHotkey, action |-> RapidClickAction]>>
RunRegistry ==
    Insert(Insert(RegistryNew, RunBinds[1].hotkey, RunBinds[1].action),
           RunBinds[2].hotkey, RunBinds[2].action)

\* The actions SpecRun executes and the executor calls it lets fail.
RunActions ==
    {PressKey("Enter"), Delay(FromMillis(1)), RandomDelay(1000, 2500),
     TypeText("Hi"), RapidClickAction,
     RepeatWhileHeld(<<HoldKey("Enter"), Delay(FromMillis(1))>>, FromMillis(1)),
     Sequence(<<HoldKey("Enter"), Delay(FromMillis(1)), ReleaseKey("Enter")>>),
     Sequence(<<Click("Right"), Delay(FromMillis(1)), PressKey("Enter")>>)}
RunFailures == {{}, {1}, {2}}

InitRun ==
    /\ tracker = StateTrackerNew
    /\ fed = <<>>
    /\ registry = RunRegistry
    /\ bindLog = RunBinds
    /\ phase = "running"
    /\ state = StateTrackerNew
    /\ prev = StateTrackerNew
    /\ lastEvent = NoEvent
    /\ returned = None
    /\ action = None
    /\ failAt = {}
    /\ rnd = 0
    /\ fut = NoFuture
    /\ calls = <<>>
    /\ slept = <<>>
    /\ result = "Idle"

NextRun ==
    \/ \E e \in ProcessorEvents : ProcessEvent(e)
    \/ /\ result = "Idle"
       /\ \E a \in RunActions, F \in RunFailures :
             \E r \in Draws(a) : Execute(a, F, r)
    \/ Poll
    \/ Cancel

SpecRun == InitRun /\ [][NextRun]_vars

(***************************************************************************)
(* SpecNest: Sequence([Sequence(xs)] ++ ys) is executed, xs and ys lists   *)
(* of up to MaxNest actions that do not suspend.                           *)
(***************************************************************************)
NestElements == {PressKey("Enter"), HoldKey("Enter"), Click("Right")}

Nested(xs, ys) == Sequence(<<Sequence(xs)>> \o ys)

NextNest ==
    \/ /\ result = "Idle"
       /\ \E xs \in BSeq(NestElements, MaxNest), ys \in BSeq(NestElements, MaxNest),
             F \in SUBSET (1..MaxCalls) : Execute(Nested(xs, ys), F, 0)
    \/ Poll

SpecNest == Init /\ [][NextNest]_vars

(***************************************************************************)
(* Properties of the StateTracker (SpecTracker).                           *)
(***************************************************************************)
\* Some press of x in log is followed by no release of x.
PressedNotReleased(log, press, release) ==
    \E i \in 1..Len(log) :
        /\ log[i] = press
        /\ \A j \in (i + 1)..Len(log) : log[j] # release

\* C1: after any sequence of events fed to update from StateTracker::new(),
\* is_key_held(k) is true exactly when the sequence holds a KeyPress(k) that
\* no later KeyRelease(k) follows, and likewise is_button_held(b); repeated
\* presses and releases of what is not held do not change the answer.
C1_HeldIffPressedNotReleased ==
    /\ \A k \in Keys :
          IsKeyHeld(tracker, k)
              <=> PressedNotReleased(fed, KeyPress(k), KeyRelease(k))
    /\ \A b \in MouseButtons :
          IsButtonHeld(tracker, b)
              <=> PressedNotReleased(fed, MousePress(b), MouseRelease(b))

\* C1's case: a key pressed twice, a release of a key that is not held, a
\* button pressed; the key and the button are held, the other key is not.
C1_Witness ==
    /\ fed = <<KeyPress("P"), KeyPress("P"), KeyRelease("Ctrl"),
               MousePress("Button4")>>
    /\ IsKeyHeld(tracker, "P")
    /\ IsButtonHeld(tracker, "Button4")
    /\ ~IsKeyHeld(tracker, "Ctrl")

NoDuplicates(v) == \A i, j \in 1..Len(v) : v[i] = v[j] => i = j

\* C2: in every state reachable by update calls, held_keys holds each key at
\* most once and held_buttons holds each button at most once.
C2_HeldAtMostOnce ==
    /\ NoDuplicates(tracker.held_keys)
    /\ NoDuplicates(tracker.held_buttons)

\* C2's case: the same key and the same button were pressed twice in a row.
C2_Witness ==
    /\ Len(fed) = 4
    /\ fed[1] = KeyPress("Shift") /\ fed[2] = KeyPress("Shift")
    /\ fed[3] = MousePress("Right") /\ fed[4] = MousePress("Right")
    /\ tracker.held_keys = <<"Shift">>
    /\ tracker.held_buttons = <<"Right">>

(***************************************************************************)
(* Properties of the BindingRegistry (SpecRegistry).                       *)
(***************************************************************************)
\* The index of the last bind of h in the log, 0 if h was never bound.
LastBindOf(h) ==
    LET I == {i \in 1..Len(bindLog) : bindLog[i].hotkey = h}
    IN IF I = {} THEN 0 ELSE CHOOSE i \in I : \A j \in I : j <= i

\* C3: after bind(h, a1) and later bind(h, a2), with binds of other hotkeys
\* in between or not, get_action(h) is a2, the action of the last bind of h,
\* and len() counts h once: it is the number of distinct hotkeys bound.
C3_LastBindWins ==
    /\ \A h \in RegistryHotkeys :
          IF LastBindOf(h) = 0
          THEN GetAction(registry, h) = None /\ ~IsRegistered(registry, h)
          ELSE GetAction(registry, h) = bindLog[LastBindOf(h)].action
    /\ RegistryLen(registry)
          = Cardinality({bindLog[i].hotkey : i \in 1..Len(bindLog)})

\* C3's case: h bound, another hotkey bound, h bound again to another action.
C3_Witness ==
    /\ Len(bindLog) = 3
    /\ bindLog[1] = [hotkey |-> RapidClickHotkey, action |-> Click("Right")]
    /\ bindLog[2].hotkey = HotkeyKey("P")
    /\ bindLog[3] = [hotkey |-> RapidClickHotkey, action |-> RapidClickAction]
    /\ GetAction(registry, RapidClickHotkey) = RapidClickAction
    /\ RegistryLen(registry) = 2

\* The set of the modifiers of a hotkey.
ModifierSet(h) == {h.modifiers[i] : i \in 1..Len(h.modifiers)}

\* Two hotkeys that are one hotkey when the modifiers are a set.
SameHotkey(h1, h2) ==
    ModifierSet(h1) = ModifierSet(h2) /\ h1.trigger = h2.trigger

\* C4: hotkey identity is order-independent over the modifier set: after
\* bind(combo(m1, t), a), get_action and is_registered of combo(m2, t), m2 a
\* reordering of m1, find that binding, and binding both leaves one entry.
C4_OrderIndependentIdentity ==
    /\ \A h1 \in DOMAIN registry :
          \A h2 \in RegistryHotkeys :
              SameHotkey(h1, h2) =>
                  /\ IsRegistered(registry, h2)
                  /\ GetAction(registry, h2) = GetAction(registry, h1)
    /\ \A h1, h2 \in DOMAIN registry : SameHotkey(h1, h2) => h1 = h2

(***************************************************************************)
(* Properties of the EventProcessor (Spec).                                *)
(***************************************************************************)
\* The modifiers whose keys are held in a tracker state.
ActiveModifiers(st) == {m \in Modifiers : IsKeyHeld(st, m)}

\* The bound hotkeys that match a press of trigger trig under mods, and the
\* most specific of them.
Matching(reg, trig, mods) ==
    {h \in DOMAIN reg : h.trigger = trig /\ ModifierSet(h) \subseteq mods}
MostSpecific(reg, trig, mods) ==
    {h \in Matching(reg, trig, mods) :
        \A g \in Matching(reg, trig, mods) :
            Cardinality(ModifierSet(g)) <= Cardinality(ModifierSet(h))}

IsPress(event) == event.kind \in {"KeyPress", "MousePress"}

\* C5: a press of trigger t returns the action of the bound hotkey with
\* trigger t whose modifier set is the largest subset of the held
\* modifiers, and none only if no bound hotkey matches.
C5_MostSpecificWins ==
    (phase = "running" /\ IsPress(lastEvent)) =>
        LET trig == PressedTrigger(lastEvent)
            mods == ActiveModifiers(prev)
        IN IF Matching(registry, trig, mods) = {}
           THEN returned = None
           ELSE \E h \in MostSpecific(registry, trig, mods) :
                    returned = registry[h]

\* C6: two bound hotkeys of one trigger, with distinct modifier sets of
\* equal size that are both held, resolve to the one bound most recently,
\* and an action is returned.
C6_TieResolvedByLastBind ==
    (phase = "running" /\ IsPress(lastEvent)) =>
        LET trig == PressedTrigger(lastEvent)
            top == MostSpecific(registry, trig, ActiveModifiers(prev))
        IN Cardinality(top) >= 2 =>
              \E h \in top :
                  /\ \A g \in top : LastBindOf(g) <= LastBindOf(h)
                  /\ returned = registry[h]
                  /\ returned # None

\* The trigger of the last event was already held when the event arrived.
RepressWhileHeld ==
    \/ lastEvent.kind = "KeyPress" /\ IsKeyHeld(prev, lastEvent.key)
    \/ lastEvent.kind = "MousePress" /\ IsButtonHeld(prev, lastEvent.button)

Finished == result \in {"Ok", "Err", "Panic"}

\* The execution state after the first k elements of list have run one
\* after the other, each from where the one before it ended.
RECURSIVE AfterElements(_, _)
AfterElements(list, k) ==
    IF k = 0 THEN ExecStart
    ELSE Exec(list[k], AfterElements(list, k - 1), failAt, rnd)

\* The first element of list that fails, Len(list) if none does.
LastElementRun(list) ==
    LET bad == {k \in 1..Len(list) :
                   /\ AfterElements(list, k).res # "Ok"
                   /\ \A j \in 1..(k - 1) : AfterElements(list, j).res = "Ok"}
    IN IF bad = {} THEN Len(list) ELSE CHOOSE k \in bad : TRUE

\* C7: Sequence(list) runs its elements in list order; when element i is
\* the first to fail, the elements before i have run completely, nothing of
\* an element after i is run, and the result is the failure of element i;
\* when no element fails the result is success.
C7_SequenceAbortsAtFirstFailure ==
    (Finished /\ action.type = "Sequence") =>
        LET i == LastElementRun(action.actions)
            end == AfterElements(action.actions, i)
        IN /\ calls = CallsOf(end.trace)
           /\ slept = SleepsOf(end.trace)
           /\ result = end.res
           /\ (result = "Ok" <=>
                  \A k \in 1..Len(action.actions) :
                      AfterElements(action.actions, k).res = "Ok")

\* C7's case: Sequence([A, B, C]) where B fails on its first call.
C7_Witness ==
    /\ action = Sequence(<<HoldKey("Enter"), PressKey("Enter"), Click("Right")>>)
    /\ failAt = {2}
    /\ result = "Err"
    /\ calls = <<SimulateKey("Enter", "Press"), SimulateKey("Enter", "Press")>>

\* C8: PressKey(k) calls simulate_key(k, Press) then simulate_key(k,
\* Release), each at most once; a failed Press makes no Release call and the
\* action fails; a failed Release fails the action with no retry; Click(b)
\* does the same over simulate_mouse.
C8_PressThenReleaseOrAbort ==
    (Finished /\ action.type \in {"PressKey", "Click"}) =>
        LET press == IF action.type = "PressKey"
                     THEN SimulateKey(action.key, "Press")
                     ELSE SimulateMouse(action.button, "Press")
            release == IF action.type = "PressKey"
                       THEN SimulateKey(action.key, "Release")
                       ELSE SimulateMouse(action.button, "Release")
        IN IF 1 \in failAt
           THEN calls = <<press>> /\ result = "Err"
           ELSE /\ calls = <<press, release>>
                /\ result = IF 2 \in failAt THEN "Err" ELSE "Ok"

\* C8's case: PressKey whose Press call fails.
C8_Witness ==
    /\ action = PressKey("Enter")
    /\ 1 \in failAt
    /\ result = "Err"
    /\ calls = <<SimulateKey("Enter", "Press")>>

\* C10: a RepeatWhileHeld action, once run, executes its inner actions and
\* pauses, and its execution never ends in a failure: it ends, after its
\* cancellation, as a normal completion.
C10_RepeatRunsAndEndsNormally ==
    action.type = "RepeatWhileHeld" =>
        /\ result \in {"Idle", "Created", "Suspended", "Ok"}
        /\ result \in {"Suspended", "Ok"} => calls # <<>>

\* C11: TypeText(s) emits, for each character of s in order, shift-press if
\* the character needs shift, key-press, key-release, shift-release if shift
\* was pressed; an unmapped character adds no call and stops nothing; the
\* action completes with success.  "Hi" has two mapped characters: its calls
\* are the six of shift-bracketed H and plain i.
C11_TypeTextEmitsKeysAndSucceeds ==
    (action.type = "TypeText" /\ result \notin {"Idle", "Created"}) =>
        /\ result = "Ok"
        /\ action.text = "Hi" =>
              calls = <<SimulateKey("Shift", "Press"), SimulateKey("H", "Press"),
                        SimulateKey("H", "Release"),
                        SimulateKey("Shift", "Release"),
                        SimulateKey("I", "Press"), SimulateKey("I", "Release")>>

\* C12: RandomDelay{min: d, max: d} sleeps exactly as long as Delay(d), for
\* every d, whole milliseconds or not; and with min <= max the duration
\* slept by RandomDelay{min, max} lies in [min, max].
C12_RandomDelayWithinRange ==
    (action.type = "RandomDelay" /\ Finished /\ action.min <= action.max) =>
        /\ Len(slept) = 1
        /\ action.min <= slept[1] /\ slept[1] <= action.max
        /\ action.min = action.max =>
              slept = SleepsOf(ExecDelay(action.min, ExecStart).trace)

(***************************************************************************)
(* Properties of an execution beside the EventProcessor (SpecRun).         *)
(***************************************************************************)
\* C13: executing an action, whatever its variant and whether its executor
\* calls succeed or fail, never ends event processing and never changes the
\* state tracker: no step of an execution touches the processor or the
\* registry, and none ends in a panic that unwinds into whoever drives it;
\* an execution ends as success, failure or cancellation.
C13_ExecutionStaysLocal ==
    [][(execVars' # execVars) =>
          /\ UNCHANGED processorVars
          /\ UNCHANGED registryVars
          /\ result' \in {"Created", "Suspended", "Ok", "Err", "Cancelled"}]_vars

\* C16: while an execution is suspended in a sleep, process_event still
\* takes the next event: it updates the state tracker and, for a press of a
\* bound trigger, hands out that binding's action.
C16_EventsProcessedWhileSuspended ==
    [][(/\ result = "Suspended"
        /\ UNCHANGED execVars
        /\ processorVars' # processorVars) =>
          /\ state' = Update(state, lastEvent')
          /\ (/\ IsPress(lastEvent')
              /\ Matching(registry, PressedTrigger(lastEvent'),
                          ActiveModifiers(state)) # {})
                => returned' # None]_vars

\* Every successful Press call in cs is followed by a Release call of the
\* same key or button.
AllReleased(cs) ==
    \A i \in 1..Len(cs) :
        cs[i].state = "Press" =>
            \E j \in (i + 1)..Len(cs) :
                /\ cs[j].fn = cs[i].fn
                /\ cs[j].target = cs[i].target
                /\ cs[j].state = "Release"

\* C17: a cancelled execution leaves no simulated key or button pressed: a
\* Press it had issued without the matching Release (HoldKey) is released
\* when it is cancelled.
C17_CancelReleasesWhatIsPressed ==
    result = "Cancelled" => AllReleased(calls)

(***************************************************************************)
(* Further properties of the EventProcessor (Spec).                        *)
(***************************************************************************)
\* The actions of the bound hotkeys that match a press of the last event's
\* trigger under the modifiers of tracker state st.
MatchedActions(st) ==
    {registry[h] :
        h \in Matching(registry, PressedTrigger(lastEvent), ActiveModifiers(st))}

\* C14: process_event resolves a press against the modifiers held before
\* the event is applied to the state tracker: a binding that matches under
\* those modifiers, pressed by earlier events, is resolved, and nothing is
\* resolved that matches only with the pressed key itself counted.
C14_ModifiersCapturedBeforeUpdate ==
    (phase = "running" /\ IsPress(lastEvent)) =>
        /\ returned # None => returned \in MatchedActions(prev)
        /\ MatchedActions(prev) # {} => returned # None

\* C15: a MouseMove event triggers no binding and leaves the held keys and
\* the held buttons as they were.
C15_MouseMoveIsIgnored ==
    (phase = "running" /\ lastEvent.kind = "MouseMove") =>
        /\ returned = None
        /\ state = prev

\* C15's case: a move arrives while a key and a button with bindings are
\* held.
C15_Witness ==
    /\ phase = "running"
    /\ lastEvent = MouseMove(0, 0)
    /\ IsRegistered(registry, RapidClickHotkey)
    /\ IsRegistered(registry, HotkeyKey("P"))
    /\ state.held_keys = <<"Ctrl", "P">>
    /\ state.held_buttons = <<"Button4">>

\* C18: the held-state inside the EventProcessor depends on the event
\* stream alone: it starts as StateTracker::new() and every process_event
\* call changes it as update changes a standalone StateTracker in the same
\* state, whatever is bound and whatever is returned.
C18_ProcessorTracksLikeStateTracker ==
    [][/\ (phase = "config" /\ phase' = "running") => state' = StateTrackerNew
       /\ (phase = "running" /\ processorVars' # processorVars) =>
             state' = Update(state, lastEvent')]_vars

\* C18's case: with two bindings in the registry, a press, a repeated press
\* and a release have been processed.
C18_Witness ==
    /\ phase = "running"
    /\ RegistryLen(registry) = 2
    /\ lastEvent = KeyRelease("Ctrl")
    /\ IsKeyHeld(prev, "Ctrl")
    /\ state.held_keys = <<"P">>

(***************************************************************************)
(* Properties of nested sequences (SpecNest).                              *)
(***************************************************************************)
\* C19: for lists xs and ys of actions that do not suspend and any pattern
\* of executor failures, Sequence([Sequence(xs)] ++ ys) makes the executor
\* calls of Sequence(xs ++ ys), in the same order, and returns the same
\* result; an empty Sequence makes no call and succeeds.
C19_NestingIsFlattening ==
    (Finished /\ action.type = "Sequence") =>
        LET xs == action.actions[1].actions
            ys == Tail(action.actions)
            flat == Exec(Sequence(xs \o ys), ExecStart, failAt, rnd)
        IN /\ calls = CallsOf(flat.trace)
           /\ result = flat.res
           /\ (xs \o ys = <<>>) => (calls = <<>> /\ result = "Ok")

\* C19's case: the second call fails inside the nested sequence, and the
\* element after the nested sequence is not run.
C19_Witness ==
    /\ action = Nested(<<HoldKey("Enter"), PressKey("Enter")>>, <<Click("Right")>>)
    /\ failAt = {2}
    /\ result = "Err"
    /\ calls = <<SimulateKey("Enter", "Press"), SimulateKey("Enter", "Press")>>

====
